---- MODULE Spec2Model ----
(***************************************************************************)
(* Variational EM for spike-and-slab PRS inference: the two classes        *)
(* vem_prs_opt (global residual variance, helper q) and vem_prs_sbayes     *)
(* (per-variant residual variance, helper ld_prod) and their fit driver.   *)
(*                                                                         *)
(* Numbers.  The source computes in IEEE doubles.  Here a double is an     *)
(* integer count of grid units, One units standing for 1.0, plus the       *)
(* values NaN, PInf and NInf.  Products and quotients are rounded to the   *)
(* nearest unit and, like doubles in the range the program works in, a     *)
(* nonzero product or quotient is never flushed to zero.  The clip bounds  *)
(* of the source (1e-6, 1e-12, 1e12) keep their order on the grid:         *)
(*     0 < CLIP_MIN <= GAMMA_EPS < 1/M <= One < CLIP_MAX < PInf.           *)
(* Arrays are sequences read with the source's 0-based indices through At. *)
(***************************************************************************)
EXTENDS Integers, Sequences, FiniteSets, TLC

\* ------------------------------------------------------------------ bounds
MaxIterBound == 3      \* largest max_iter passed to fit
MaxHist == 4           \* cap on the length the histories may grow to

\* ------------------------------------------------------------- the numbers
One == 16              \* grid units per 1.0
LogTwoOne == 4         \* log2(One)
NaN == -2000000000
PInf == 1000000000     \* np.inf
NInf == -1000000000
GAMMA_EPS == 1         \* the 1e-6 of clip(sigmoid(u), 1e-6, 1. - 1e-6)
CLIP_MIN == 1          \* the 1e-12 lower clip bound of the M-step
CLIP_MAX == 64         \* the 1e12 upper clip bound of the M-step
Half == One \div 2     \* .5
TwoPi == 101           \* 2 * np.pi
TwoPiE == 273          \* 2. * np.pi * np.e

IsNaN(x) == x = NaN
Sgn(x) == IF x > 0 THEN 1 ELSE IF x < 0 THEN -1 ELSE 0
Abs(x) == IF x < 0 THEN -x ELSE x

\* n / d rounded to the nearest integer, d > 0
Rnd(n, d) == (2 * n + d) \div (2 * d)

\* n / d to the nearest unit, never flushing a nonzero quotient to zero
RndNZ(n, d) ==
    LET s == Sgn(n) * Sgn(d)
        r == Rnd(Abs(n), Abs(d))
    IN IF n = 0 THEN 0 ELSE IF r = 0 THEN s ELSE s * r

FAdd(a, b) == IF IsNaN(a) \/ IsNaN(b) THEN NaN ELSE a + b
FSub(a, b) == IF IsNaN(a) \/ IsNaN(b) THEN NaN ELSE a - b
FNeg(a) == IF IsNaN(a) THEN NaN ELSE -a
FMul(a, b) == IF IsNaN(a) \/ IsNaN(b) THEN NaN ELSE RndNZ(a * b, One)
\* a * n and a / n for an exact count n (N, M, 2.)
FScale(a, n) == IF IsNaN(a) THEN NaN ELSE a * n
\* double division; x/0 is inf or nan as in numpy (C division checks first)
FDiv(a, b) ==
    IF IsNaN(a) \/ IsNaN(b) THEN NaN
    ELSE IF b = 0 THEN (IF a = 0 THEN NaN ELSE IF a > 0 THEN PInf ELSE NInf)
    ELSE IF a \in {PInf, NInf} THEN (IF Sgn(a) * Sgn(b) > 0 THEN PInf ELSE NInf)
    ELSE RndNZ(a * One, b)
FLt(a, b) == ~IsNaN(a) /\ ~IsNaN(b) /\ a < b
FLe(a, b) == ~IsNaN(a) /\ ~IsNaN(b) /\ a <= b
FGt(a, b) == FLt(b, a)
FAbs(a) == IF IsNaN(a) THEN NaN ELSE Abs(a)

RECURSIVE Pow2(_)
Pow2(k) == IF k <= 0 THEN 1 ELSE 2 * Pow2(k - 1)

RECURSIVE ILog2(_)
ILog2(x) == IF x < 2 THEN 0 ELSE 1 + ILog2(x \div 2)

\* log2 of the integer x >= 1, in units, linear between powers of two
L2(x) == LET k == ILog2(x) IN One * k + Rnd(One * (x - Pow2(k)), Pow2(k))

\* log: nan below zero, -inf at zero
FLog(x) ==
    IF IsNaN(x) \/ x < 0 THEN NaN
    ELSE IF x = 0 THEN NInf
    ELSE IF x = PInf THEN PInf
    ELSE LET d == (L2(x) - One * LogTwoOne) * 693
         IN Sgn(d) * Rnd(Abs(d), 1000)

\* exp, saturating above 2^20 and underflowing to 0
FExp(v) ==
    IF IsNaN(v) THEN NaN
    ELSE LET w == Sgn(v) * Rnd(Abs(v) * 1443, 1000)
             a == IF w >= 0 THEN w \div One ELSE -((-w + One - 1) \div One)
             f == w - a * One
         IN IF a >= 20 THEN Pow2(20) * One
            ELSE IF a >= 0 THEN (One + f) * Pow2(a)
            ELSE IF a < -20 THEN 0
            ELSE Rnd(One + f, Pow2(-a))

\* c_utils.sigmoid: 1/(1 + exp(-x)); reaches 0.0 and 1.0 for large |x|
sigmoid(x) ==
    IF IsNaN(x) THEN NaN
    ELSE IF x >= 30 * One THEN One
    ELSE IF x <= -30 * One THEN 0
    ELSE Rnd(One * One, One + FExp(-x))

\* c_utils.clip: min(max(a, lo), hi) on doubles; a nan compares false
clip(a, lo, hi) ==
    LET m == IF FGt(lo, a) THEN lo ELSE a
    IN IF FLt(hi, m) THEN hi ELSE m

\* np.clip: same bounds, nan propagates
npclip(a, lo, hi) == clip(a, lo, hi)

At(s, k) == s[k + 1]
Idx(s) == 0 .. (Len(s) - 1)

Upd(s, k, v) == [s EXCEPT ![k + 1] = v]

\* np.sum of a vector
RECURSIVE SumFrom(_, _)
SumFrom(s, k) == IF k > Len(s) THEN 0 ELSE FAdd(s[k], SumFrom(s, k + 1))
Sum(s) == SumFrom(s, 1)

\* c_utils.dot / np.dot of two vectors of equal length
Dot(a, b) == Sum([k \in 1 .. Len(a) |-> FMul(a[k], b[k])])

\* the slice s[lo:hi]
Slice(s, lo, hi) == [k \in 1 .. (IF hi > lo THEN hi - lo ELSE 0) |-> s[lo + k]]

\* c_utils.elementwise_add_mult(a, b, c): a + b*c
elementwise_add_mult(a, b, c) == [k \in 1 .. Len(a) |-> FAdd(a[k], FMul(b[k], c))]

\* ---------------------------------------------------------------- the data
\* What the GWAS data loader hands over: block sizes, banded LD rows, the
\* window bounds ld_bound[0, i] (lo) and ld_bound[1, i] (hi), beta_hat, yy.
N == 4                 \* sample size self.N

DataSets == <<
    \* one block, full symmetric windows
    [ shapes |-> <<3>>,
      lo |-> << <<0, 0, 0>> >>, hi |-> << <<3, 3, 3>> >>,
      ld |-> << << <<16, 8, 4>>, <<8, 16, 8>>, <<4, 8, 16>> >> >>,
      beta_hat |-> << <<8, -4, 6>> >>, yy |-> << <<16, 16, 16>> >> ],
    \* two blocks
    [ shapes |-> <<2, 1>>,
      lo |-> << <<0, 0>>, <<0>> >>, hi |-> << <<2, 2>>, <<1>> >>,
      ld |-> << << <<16, 8>>, <<8, 16>> >>, << <<16>> >> >>,
      beta_hat |-> << <<40, -24>>, <<32>> >>, yy |-> << <<16, 16>>, <<16>> >> ],
    \* one block, banded symmetric windows
    [ shapes |-> <<3>>,
      lo |-> << <<0, 0, 1>> >>, hi |-> << <<2, 3, 3>> >>,
      ld |-> << << <<16, -8>>, <<-8, 16, 4>>, <<4, 16>> >> >>,
      beta_hat |-> << <<-6, 8, 2>> >>, yy |-> << <<16, 12, 16>> >> ],
    \* one block, windows that are not symmetric (upper rows only)
    [ shapes |-> <<3>>,
      lo |-> << <<0, 1, 2>> >>, hi |-> << <<3, 3, 3>> >>,
      ld |-> << << <<16, 8, 4>>, <<16, 8>>, <<16>> >> >>,
      beta_hat |-> << <<8, -4, 6>> >>, yy |-> << <<16, 16, 16>> >> ],
    \* a single variant
    [ shapes |-> <<1>>,
      lo |-> << <<0>> >>, hi |-> << <<1>> >>,
      ld |-> << << <<16>> >> >>,
      beta_hat |-> << <<8>> >>, yy |-> << <<16>> >> ]
  >>

\* the fix_params dictionaries tried: every subset of the three names
FixValue == [pi |-> 4, sigma_beta |-> 2, sigma_epsilon |-> 16]
ParamNames == {"pi", "sigma_beta", "sigma_epsilon"}
FixParamSets == {[p \in S |-> FixValue[p]] : S \in SUBSET ParamNames}

\* np.random: a seed fixes the stream of draws
Seeds == 0 .. 1
GammaTab == <<4, 12, 0, 9>>     \* np.random.uniform(size): values in [0, 1)
MuTab == <<-4, 3, 0, 6>>        \* np.random.normal(scale=1./np.sqrt(M))
\* np.random.uniform(low, high): low + (high - low) * u, u = seed/4 in [0, 1)
Uniform(low, high, seed) ==
    LET d == (high - low) * seed IN low + Sgn(d) * Rnd(Abs(d), 4)

VARIABLES
    variant,          \* "opt" (vem_prs_opt) or "sbayes" (vem_prs_sbayes)
    data,             \* shapes, ld, ld_bounds, beta_hat, yy
    scale_prior, fix_params,
    pi, sigma_beta, sigma_epsilon,
    sig_e_snp, ld_prod,
    var_gamma, var_mu_beta, var_sigma_beta, q,
    history,
    pip, inf_beta,
    \* the running fit call
    pc, i, max_iter, continued, tol, max_elbo_drops, elbo_dropped_count,
    out,              \* what the call has printed
    raised,           \* the exception that ended the call, "" if none
    len0,             \* length of history['ELBO'] when the loop was entered
    ran               \* the steps run so far in the current iteration

vars == << variant, data, scale_prior, fix_params, pi, sigma_beta,
           sigma_epsilon, sig_e_snp, ld_prod, var_gamma, var_mu_beta,
           var_sigma_beta, q, history, pip, inf_beta, pc, i, max_iter,
           continued, tol, max_elbo_drops, elbo_dropped_count, out, raised, len0, ran >>

Blocks(d) == 1 .. Len(d.shapes)
M_of(d) == Sum(d.shapes)
M == M_of(data)
Unset == <<"unset">>

\* ------------------------------------------------------------- initializer
init_history ==
    [ELBO |-> <<>>, pi |-> <<>>, sigma_beta |-> <<>>,
     sigma_epsilon |-> <<>>, heritability |-> <<>>]

Tab(t, k) == t[(k % Len(t)) + 1]
Repeat(v, n) == [k \in 1 .. n |-> v]

initialize_variational_params(d, seed) ==
    [ q |-> [c \in Blocks(d) |-> Repeat(0, d.shapes[c])],
      var_gamma |-> [c \in Blocks(d) |->
                        [k \in 1 .. d.shapes[c] |-> Tab(GammaTab, seed + c + k)]],
      var_mu_beta |-> [c \in Blocks(d) |->
                        [k \in 1 .. d.shapes[c] |-> Tab(MuTab, seed + 2 * c + k)]],
      var_sigma_beta |-> [c \in Blocks(d) |->
                        Repeat(FDiv(One, M_of(d) * One), d.shapes[c])] ]

\* the upper end of the range pi is drawn from
PiHigh(v) == IF v = "opt" THEN Half ELSE 5 * One

initialize_theta(v, d, fp, seed) ==
    LET sb == IF "sigma_beta" \notin DOMAIN fp
              THEN Uniform(GAMMA_EPS, Rnd(One, 10), seed)
              ELSE fp["sigma_beta"]
        se == IF "sigma_epsilon" \notin DOMAIN fp
              THEN Uniform(Half, One, seed)
              ELSE fp["sigma_epsilon"]
    IN [ sigma_beta |-> sb,
         sigma_epsilon |-> se,
         sig_e_snp |-> IF v = "sbayes"
                       THEN [c \in Blocks(d) |-> Repeat(se, d.shapes[c])]
                       ELSE <<>>,
         pi |-> IF "pi" \notin DOMAIN fp
                THEN Uniform(FDiv(One, M_of(d) * One), PiHigh(v), seed)
                ELSE fp["pi"] ]

\* ----------------------------------------------------------------- E-step
\* prior_var of the global-residual variant
prior_var_opt(sp, se, sb) == IF sp THEN FMul(se, sb) ELSE sb

\* log(self.pi / (1. - self.pi)); the caller has checked 1. - pi # 0
log_pi_of(p) == FLog(FDiv(p, FSub(One, p)))

\* u_i and the clipped var_gamma[i]
gamma_update(log_pi, vsb, pv, mu) ==
    LET u == FAdd(FAdd(log_pi, FMul(Half, FLog(FDiv(vsb, pv)))),
                  FMul(FMul(FDiv(Half, vsb), mu), mu))
    IN clip(sigmoid(u), GAMMA_EPS, One - GAMMA_EPS)

\* var_mu_beta[i]: beta_hat[i] minus the window's LD-weighted expected
\* effects, variant n's own term added back, over the denominator
mu_update(bh, Di, vp, start, end, n, denom) ==
    FDiv(FAdd(FSub(bh, Dot(Di, Slice(vp, start, end))),
              FMul(At(Di, n - start), At(vp, n))),
         denom)

\* variant of q_update that sets q[i] and leaves the earlier entries alone
q_update_no_backfill(qv, Di, vp, start, n) ==
    Upd(qv, n, Dot(Slice(Di, 0, n - start), Slice(vp, start, n)))

\* the two q updates made after variant n (i_idx > 0)
q_update(qv, Di, vp, start, n) ==
    LET i_idx == n - start
        q1 == Upd(qv, n, Dot(Slice(Di, 0, i_idx), Slice(vp, start, n)))
        upd == elementwise_add_mult(Slice(q1, start, n), Slice(Di, 0, i_idx),
                                    At(vp, n))
    IN [k \in 1 .. Len(q1) |->
           IF k - 1 >= start /\ k - 1 < n THEN upd[k - start] ELSE q1[k]]

\* variant of the pass in which the expected effects are refreshed only
\* after the pass (a batch update)
e_step_variant_opt_batch(d, c, n, st, log_pi, pv, denom, vsb) ==
    LET Di == d.ld[c][n + 1]
        start == At(d.lo[c], n)
        end == At(d.hi[c], n)
        mu == mu_update(At(d.beta_hat[c], n), Di, st.var_prod, start, end, n, denom)
        g == gamma_update(log_pi, vsb, pv, mu)
        vp == Upd(st.var_prod, n, FMul(g, mu))
    IN [ var_mu_beta |-> Upd(st.var_mu_beta, n, mu),
         var_gamma |-> Upd(st.var_gamma, n, g),
         var_sigma_beta |-> st.var_sigma_beta,
         var_prod |-> st.var_prod,
         q |-> IF n - start > 0 THEN q_update(st.q, Di, vp, start, n) ELSE st.q ]

\* one variant of the global-residual pass over block c
e_step_variant_opt(d, c, n, st, log_pi, pv, denom, vsb) ==
    LET Di == d.ld[c][n + 1]
        start == At(d.lo[c], n)
        end == At(d.hi[c], n)
        mu == mu_update(At(d.beta_hat[c], n), Di, st.var_prod, start, end, n, denom)
        g == gamma_update(log_pi, vsb, pv, mu)
        vp == Upd(st.var_prod, n, FMul(g, mu))
    IN [ var_mu_beta |-> Upd(st.var_mu_beta, n, mu),
         var_gamma |-> Upd(st.var_gamma, n, g),
         var_sigma_beta |-> st.var_sigma_beta,
         var_prod |-> vp,
         q |-> IF n - start > 0 THEN q_update(st.q, Di, vp, start, n) ELSE st.q ]

\* one variant of the per-variant-residual pass over block c
e_step_variant_sbayes(d, c, j, st, log_pi, sig_e, pv) ==
    LET Dj == d.ld[c][j + 1]
        start == At(d.lo[c], j)
        end == At(d.hi[c], j)
        se == At(sig_e, j)
        vsb == FDiv(se, FAdd(N * One, FDiv(se, At(pv, j))))
        mu == mu_update(At(d.beta_hat[c], j), Dj, st.var_prod, start, end, j,
                        FAdd(One, FDiv(se, FScale(At(pv, j), N))))
        g == gamma_update(log_pi, vsb, At(pv, j), mu)
    IN [ var_mu_beta |-> Upd(st.var_mu_beta, j, mu),
         var_gamma |-> Upd(st.var_gamma, j, g),
         var_sigma_beta |-> Upd(st.var_sigma_beta, j, vsb),
         var_prod |-> Upd(st.var_prod, j, FMul(g, mu)),
         q |-> st.q ]

\* the order in which the pass visits the variants of a block
next_variant(n) == n + 1

\* for i, Di in enumerate(self.ld[c]): the pass from variant n on
RECURSIVE e_step_pass(_, _, _, _, _, _, _)
e_step_pass(v, d, c, n, st, log_pi, env) ==
    IF n >= d.shapes[c] THEN st
    ELSE e_step_pass(v, d, c, next_variant(n),
            IF v = "opt"
            THEN e_step_variant_opt(d, c, n, st, log_pi, env.pv, env.denom, env.vsb)
            ELSE e_step_variant_sbayes(d, c, n, st, log_pi, env.sig_e, env.pv),
            log_pi, env)

\* the body of "for c, c_size in self.shapes.items()" for block c
e_step_block(v, d, c, sp, p, sb, se, sig_e, vg, vmb, vsb0) ==
    LET pvo == prior_var_opt(sp, se, sb)
        env == IF v = "opt"
               THEN [ pv |-> pvo,
                      denom |-> FAdd(One, FDiv(se, FScale(pvo, N))),
                      vsb |-> FDiv(se, FAdd(N * One, FDiv(se, pvo))) ]
               ELSE [ sig_e |-> sig_e,
                      pv |-> IF sp
                             THEN [k \in 1 .. d.shapes[c] |-> FMul(sig_e[k], sb)]
                             ELSE Repeat(sb, d.shapes[c]) ]
        st0 == [ var_mu_beta |-> vmb,
                 var_gamma |-> vg,
                 var_sigma_beta |-> IF v = "opt"
                                    THEN Repeat(env.vsb, d.shapes[c]) ELSE vsb0,
                 var_prod |-> [k \in 1 .. d.shapes[c] |-> FMul(vg[k], vmb[k])],
                 q |-> Repeat(0, d.shapes[c]) ]
    IN e_step_pass(v, d, c, 0, st0, log_pi_of(p), env)

\* the object's fields, as one record
self ==
    [ variant |-> variant, data |-> data, scale_prior |-> scale_prior,
      fix_params |-> fix_params, pi |-> pi, sigma_beta |-> sigma_beta,
      sigma_epsilon |-> sigma_epsilon, sig_e_snp |-> sig_e_snp,
      ld_prod |-> ld_prod, var_gamma |-> var_gamma,
      var_mu_beta |-> var_mu_beta, var_sigma_beta |-> var_sigma_beta,
      q |-> q, history |-> history ]

\* e_step raises ZeroDivisionError in log(self.pi / (1. - self.pi))
e_step_raises(s) == s.pi = One

e_step(s) ==
    LET r == [c \in Blocks(s.data) |->
                 e_step_block(s.variant, s.data, c, s.scale_prior, s.pi,
                              s.sigma_beta, s.sigma_epsilon,
                              IF s.variant = "sbayes" THEN s.sig_e_snp[c] ELSE <<>>,
                              s.var_gamma[c], s.var_mu_beta[c],
                              s.var_sigma_beta[c])]
    IN [s EXCEPT !.var_gamma = [c \in Blocks(s.data) |-> r[c].var_gamma],
                 !.var_mu_beta = [c \in Blocks(s.data) |-> r[c].var_mu_beta],
                 !.var_sigma_beta = [c \in Blocks(s.data) |-> r[c].var_sigma_beta],
                 !.q = IF s.variant = "opt"
                       THEN [c \in Blocks(s.data) |-> r[c].q] ELSE s.q]

\* ----------------------------------------------------------------- M-step
Sq(x) == FMul(x, x)
\* var_mu_beta**2 + var_sigma_beta, elementwise
mu2_plus_sigma(vmb, vsb) == [k \in 1 .. Len(vmb) |-> FAdd(Sq(vmb[k]), vsb[k])]
var_prod_of(vg, vmb) == [k \in 1 .. Len(vg) |-> FMul(vg[k], vmb[k])]
SumBlocks(f) == Sum([c \in 1 .. Len(f) |-> f[c]])

var_gamma_sum_of(s) == SumBlocks([c \in Blocks(s.data) |-> Sum(s.var_gamma[c])])

\* the clip bounds of pi, sigma_beta and the residual variances
pi_clip(x, Mv) == clip(x, FDiv(One, Mv * One), One)
sigma_beta_clip(v, x) == clip(x, CLIP_MIN, IF v = "opt" THEN CLIP_MAX ELSE PInf)
sigma_epsilon_clip(x) == clip(x, CLIP_MIN, CLIP_MAX)
sig_e_snp_clip(x) == npclip(x, CLIP_MIN, CLIP_MAX)

\* variant of m_step_pi that updates pi whether or not it is pinned
m_step_pi_unpinned(s) ==
    pi_clip(FDiv(var_gamma_sum_of(s), M_of(s.data) * One), M_of(s.data))

m_step_pi(s) ==
    IF "pi" \notin DOMAIN s.fix_params
    THEN pi_clip(FDiv(var_gamma_sum_of(s), M_of(s.data) * One), M_of(s.data))
    ELSE s.pi

m_step_sigma_beta(s) ==
    IF "sigma_beta" \notin DOMAIN s.fix_params
    THEN LET t == SumBlocks([c \in Blocks(s.data) |->
                      Dot(s.var_gamma[c],
                          mu2_plus_sigma(s.var_mu_beta[c], s.var_sigma_beta[c]))])
             x == FDiv(t, var_gamma_sum_of(s))
         IN sigma_beta_clip(s.variant,
                IF s.scale_prior THEN FDiv(x, s.sigma_epsilon) ELSE x)
    ELSE s.sigma_beta

scale_prior_adj_of(s) ==
    IF s.scale_prior THEN FAdd(One, FDiv(One, FScale(s.sigma_beta, N))) ELSE One

\* N / (N + var_gamma_sum)
n_over_n_plus(s) == FDiv(N * One, FAdd(N * One, var_gamma_sum_of(s)))

\* global-residual variant; s.sigma_beta is already the updated one
m_step_sigma_epsilon_opt(s) ==
    IF "sigma_epsilon" \notin DOMAIN s.fix_params
    THEN LET sig_eps == SumBlocks([c \in Blocks(s.data) |->
                 LET vp == var_prod_of(s.var_gamma[c], s.var_mu_beta[c])
                 IN FAdd(FAdd(FScale(Dot(vp, s.data.beta_hat[c]), -2),
                              FMul(scale_prior_adj_of(s),
                                   Dot(s.var_gamma[c],
                                       mu2_plus_sigma(s.var_mu_beta[c],
                                                      s.var_sigma_beta[c])))),
                         Dot(vp, s.q[c]))])
             final_sig_e == FAdd(One, sig_eps)
         IN sigma_epsilon_clip(IF s.scale_prior
                               THEN FMul(final_sig_e, n_over_n_plus(s))
                               ELSE final_sig_e)
    ELSE s.sigma_epsilon

\* per-variant-residual variant: snp_res and snp_ld of variant n of block c
snp_res_of(s, c, n) ==
    LET vp == var_prod_of(s.var_gamma[c], s.var_mu_beta[c])
    IN FSub(FMul(FMul(FMul(Half, scale_prior_adj_of(s)), At(s.var_gamma[c], n)),
                 FAdd(Sq(At(s.var_mu_beta[c], n)), At(s.var_sigma_beta[c], n))),
            FMul(At(vp, n), At(s.data.beta_hat[c], n)))

\* for j in range(i + 1, ld_bound[1, i]): Di[j - ld_bound[0, i]]*vp[i]*vp[j]
snp_ld_of(s, c, n) ==
    LET vp == var_prod_of(s.var_gamma[c], s.var_mu_beta[c])
        Di == s.data.ld[c][n + 1]
        start == At(s.data.lo[c], n)
        end == At(s.data.hi[c], n)
    IN Sum([k \in 1 .. (IF end > n + 1 THEN end - n - 1 ELSE 0) |->
              FMul(FMul(At(Di, n + k - start), At(vp, n)), At(vp, n + k))])

m_step_sig_e_snp(s) ==
    [c \in Blocks(s.data) |->
        [k \in 1 .. s.data.shapes[c] |->
            sig_e_snp_clip(FAdd(s.data.yy[c][k],
                FScale(FAdd(snp_res_of(s, c, k - 1), snp_ld_of(s, c, k - 1)), 2)))]]

ld_prod_sum(s) ==
    SumBlocks([c \in Blocks(s.data) |->
        Sum([k \in 1 .. s.data.shapes[c] |-> snp_ld_of(s, c, k - 1)])])

m_step_ld_prod(s) == FScale(ld_prod_sum(s), 2)

m_step_sigma_epsilon_sbayes(s) ==
    IF "sigma_epsilon" \notin DOMAIN s.fix_params
    THEN LET res == SumBlocks([c \in Blocks(s.data) |->
                        Sum([k \in 1 .. s.data.shapes[c] |-> snp_res_of(s, c, k - 1)])])
             global_sig_e == FAdd(res, ld_prod_sum(s))
             final_sig_e == FAdd(One, FScale(global_sig_e, 2))
         IN sigma_epsilon_clip(IF s.scale_prior
                               THEN FMul(final_sig_e, n_over_n_plus(s))
                               ELSE final_sig_e)
    ELSE s.sigma_epsilon

\* the three values m_step appends, in the order it appends them
m_step(s) ==
    LET s1 == [s EXCEPT !.pi = m_step_pi(s)]
        s2 == [s1 EXCEPT !.sigma_beta = m_step_sigma_beta(s1)]
        s3 == IF s.variant = "opt"
              THEN [s2 EXCEPT !.sigma_epsilon = m_step_sigma_epsilon_opt(s2)]
              ELSE [s2 EXCEPT !.sig_e_snp = m_step_sig_e_snp(s2),
                              !.ld_prod = m_step_ld_prod(s2),
                              !.sigma_epsilon = m_step_sigma_epsilon_sbayes(s2)]
    IN [s3 EXCEPT !.history.pi = Append(@, s3.pi),
                  !.history.sigma_beta = Append(@, s3.sigma_beta),
                  !.history.sigma_epsilon = Append(@, s3.sigma_epsilon)]

\* --------------------------------------------------------------- objective
prior_var_of(s) == prior_var_opt(s.scale_prior, s.sigma_epsilon, s.sigma_beta)

VLog(x) == [k \in 1 .. Len(x) |-> FLog(x[k])]
OneMinus(x) == [k \in 1 .. Len(x) |-> FSub(One, x[k])]

\* the LD cross term a block adds inside the likelihood
ld_cross_term(s, c) ==
    IF s.variant = "opt"
    THEN Dot(var_prod_of(s.var_gamma[c], s.var_mu_beta[c]), s.q[c])
    ELSE s.ld_prod

\* objective raises ZeroDivisionError in self.pi / (1. - self.pi)
objective_raises(s) == s.pi = One /\ Len(s.data.shapes) > 0

loglik_block(s, c) ==
    LET pv == prior_var_of(s)
        vg == s.var_gamma[c]
        gamma_mu == var_prod_of(vg, s.var_mu_beta[c])
        gms == [k \in 1 .. Len(vg) |->
                   FMul(vg[k], FAdd(Sq(s.var_mu_beta[c][k]), s.var_sigma_beta[c][k]))]
        t1 == FMul(FDiv(FScale(-Half, N), s.sigma_epsilon),
                   FAdd(FAdd(FScale(Dot(gamma_mu, s.data.beta_hat[c]), -2),
                             ld_cross_term(s, c)),
                        Sum(gms)))
        t2 == FMul(FDiv(-Half, pv),
                   FAdd(Sum(gms), FMul(pv, Sum(OneMinus(vg)))))
        t3 == FMul(log_pi_of(s.pi), Sum(vg))
    IN FAdd(FAdd(t1, t2), t3)

ent_block(s, c) ==
    LET pv == prior_var_of(s)
        vg == s.var_gamma[c]
        e1 == FMul(Half, Dot(vg, VLog([k \in 1 .. Len(vg) |->
                                          FDiv(s.var_sigma_beta[c][k], pv)])))
        e2 == Dot(vg, VLog([k \in 1 .. Len(vg) |->
                               FDiv(vg[k], FSub(One, vg[k]))]))
        e3 == Sum(VLog(OneMinus(vg)))
    IN FSub(FSub(e1, e2), e3)

elbo_of(s) ==
    LET pv == prior_var_of(s)
        Mv == M_of(s.data)
        l0 == FAdd(FSub(FNeg(FMul(FScale(Half, N),
                                  FAdd(FLog(FMul(TwoPi, s.sigma_epsilon)),
                                       FDiv(One, s.sigma_epsilon)))),
                        FMul(FScale(Half, Mv), FLog(FMul(TwoPi, pv)))),
                   FScale(FLog(FSub(One, s.pi)), Mv))
        e0 == FMul(FScale(Half, Mv), FLog(FMul(TwoPiE, pv)))
        loglik == FAdd(l0, SumBlocks([c \in Blocks(s.data) |-> loglik_block(s, c)]))
        ent == FAdd(e0, SumBlocks([c \in Blocks(s.data) |-> ent_block(s, c)]))
    IN FAdd(loglik, ent)

objective(s) == [s EXCEPT !.history.ELBO = Append(@, elbo_of(s))]

\* ------------------------------------------------------------ heritability
sigma_g_of(s) ==
    LET per == SumBlocks([c \in Blocks(s.data) |->
                 LET vg == s.var_gamma[c]
                     gms == Sum([k \in 1 .. Len(vg) |->
                                FMul(vg[k], FAdd(Sq(s.var_mu_beta[c][k]),
                                                 s.var_sigma_beta[c][k]))])
                 IN IF s.variant = "opt"
                    THEN FAdd(gms, Dot(s.q[c], var_prod_of(vg, s.var_mu_beta[c])))
                    ELSE gms])
    IN IF s.variant = "opt" THEN per ELSE FAdd(per, s.ld_prod)

h2g_of(s) == FDiv(sigma_g_of(s), FAdd(sigma_g_of(s), s.sigma_epsilon))

\* variant of get_heritability that computes the value without recording it
get_heritability_unrecorded(s) == s

get_heritability(s) == [s EXCEPT !.history.heritability = Append(@, h2g_of(s))]

\* ------------------------------------------------------------------- state
initialize(s, seed) ==
    LET vp == initialize_variational_params(s.data, seed)
        th == initialize_theta(s.variant, s.data, s.fix_params, seed)
    IN [s EXCEPT !.var_gamma = vp.var_gamma,
                 !.var_mu_beta = vp.var_mu_beta,
                 !.var_sigma_beta = vp.var_sigma_beta,
                 !.q = IF s.variant = "opt" THEN vp.q ELSE s.q,
                 !.sigma_beta = th.sigma_beta,
                 !.sigma_epsilon = th.sigma_epsilon,
                 !.sig_e_snp = th.sig_e_snp,
                 !.pi = th.pi,
                 !.history = init_history]

\* the fields a method may write
Assign(s) ==
    /\ pi' = s.pi
    /\ sigma_beta' = s.sigma_beta
    /\ sigma_epsilon' = s.sigma_epsilon
    /\ sig_e_snp' = s.sig_e_snp
    /\ ld_prod' = s.ld_prod
    /\ var_gamma' = s.var_gamma
    /\ var_mu_beta' = s.var_mu_beta
    /\ var_sigma_beta' = s.var_sigma_beta
    /\ q' = s.q
    /\ history' = s.history

config == << variant, data, scale_prior, fix_params >>
fields == << pi, sigma_beta, sigma_epsilon, sig_e_snp, ld_prod, var_gamma,
             var_mu_beta, var_sigma_beta, q, history >>
args == << max_iter, continued, tol, max_elbo_drops >>

Variants == {"opt", "sbayes"}
\* the <<tol, max_elbo_drops>> pairs passed to fit, tol in grid units
FitArgs == {<<0, 0>>, <<3, 0>>, <<0, 1>>}

\* __init__: the object after construction, which ends with initialize()
Init ==
    \E v \in Variants, di \in 1 .. Len(DataSets), sp \in BOOLEAN,
       fp \in FixParamSets, seed \in Seeds :
        LET s0 == [ variant |-> v, data |-> DataSets[di], scale_prior |-> sp,
                    fix_params |-> fp, pi |-> 0, sigma_beta |-> 0,
                    sigma_epsilon |-> 0, sig_e_snp |-> <<>>, ld_prod |-> 0,
                    var_gamma |-> <<>>, var_mu_beta |-> <<>>,
                    var_sigma_beta |-> <<>>, q |-> <<>>, history |-> <<>> ]
            s == initialize(s0, seed)
        IN /\ variant = v /\ data = DataSets[di] /\ scale_prior = sp
           /\ fix_params = fp
           /\ pi = s.pi /\ sigma_beta = s.sigma_beta
           /\ sigma_epsilon = s.sigma_epsilon /\ sig_e_snp = s.sig_e_snp
           /\ ld_prod = s.ld_prod /\ var_gamma = s.var_gamma
           /\ var_mu_beta = s.var_mu_beta /\ var_sigma_beta = s.var_sigma_beta
           /\ q = s.q /\ history = s.history
           /\ pip = Unset /\ inf_beta = Unset
           /\ pc = "idle" /\ i = 0 /\ max_iter = 0 /\ continued = FALSE /\ tol = 0
           /\ max_elbo_drops = 0 /\ elbo_dropped_count = 0
           /\ out = <<>> /\ raised = "" /\ len0 = 0 /\ ran = <<>>

\* ---------------------------------------------------------------- fit
\* variant of the loop body that evaluates the objective before m_step
fit_step_after_swapped(p) ==
    CASE p = "e_step" -> "objective"
      [] p = "objective" -> "m_step"
      [] p = "m_step" -> "get_heritability"
      [] p = "get_heritability" -> "test"

\* the step fit runs after step p of an iteration
fit_step_after(p) ==
    CASE p = "e_step" -> "m_step"
      [] p = "m_step" -> "objective"
      [] p = "objective" -> "get_heritability"
      [] p = "get_heritability" -> "test"

\* fit(max_iter, continued, tol, max_elbo_drops) up to the loop's first
\* iteration; i = 0 stands for the loop variable not being bound
fit(mi, cont, t, drops, seed) ==
    /\ pc = "idle"
    /\ LET s == IF cont THEN self ELSE initialize(self, seed)
       IN /\ Len(s.history.ELBO) + mi <= MaxHist
          /\ Assign(s)
          /\ len0' = Len(s.history.ELBO)
    /\ max_iter' = mi /\ continued' = cont /\ tol' = t
    /\ max_elbo_drops' = drops
    /\ elbo_dropped_count' = 0
    /\ out' = <<>> /\ raised' = "" /\ ran' = <<>>
    /\ IF mi >= 1 THEN i' = 1 /\ pc' = "e_step" ELSE i' = 0 /\ pc' = "end"
    /\ UNCHANGED << config, pip, inf_beta >>

\* an exception leaves fit; a behaviour ends at the first exception
Raise(e) ==
    /\ pc' = "raised" /\ raised' = e
    /\ UNCHANGED << config, fields, args, pip, inf_beta, i,
                    elbo_dropped_count, out, len0, ran >>

Step(p, s) ==
    /\ Assign(s)
    /\ pc' = fit_step_after(p)
    /\ ran' = Append(ran, p)
    /\ UNCHANGED << config, args, pip, inf_beta, i, elbo_dropped_count, out,
                    raised, len0 >>

EStep ==
    /\ pc = "e_step"
    /\ IF e_step_raises(self) THEN Raise("ZeroDivisionError")
       ELSE Step("e_step", e_step(self))

MStep == pc = "m_step" /\ Step("m_step", m_step(self))

Objective ==
    /\ pc = "objective"
    /\ IF objective_raises(self) THEN Raise("ZeroDivisionError")
       ELSE Step("objective", objective(self))

GetHeritability ==
    pc = "get_heritability" /\ Step("get_heritability", get_heritability(self))

\* the two entries of history['ELBO'] the tests of iteration n compare
elbo_now(h, n) == At(h, n - 1)
elbo_before(h, n) == At(h, n - 2)

elbo_dropped(h, n) == n > 1 /\ FLt(elbo_now(h, n), elbo_before(h, n))
elbo_converged(h, n, t) ==
    n > 1 /\ FLe(FAbs(FSub(elbo_now(h, n), elbo_before(h, n))), t)

\* variant of the tests in which the stall test comes before convergence
fit_tests_stall_first(h, n, t, count, drops) ==
    LET cnt == IF elbo_dropped(h, n) THEN count + 1 ELSE count
        halt == n > 1 /\ cnt > drops
        conv == ~halt /\ elbo_converged(h, n, t)
    IN [ count |-> cnt,
         break |-> conv \/ halt,
         printed |-> (IF elbo_dropped(h, n) THEN <<"dropped">> ELSE <<>>)
                     \o (IF conv THEN <<"converged">> ELSE <<>>)
                     \o (IF halt THEN <<"halted">> ELSE <<>>) ]

\* the outcome of the tests after iteration n: the new drop count, whether
\* the loop breaks, and what is printed
fit_tests(h, n, t, count, drops) ==
    LET cnt == IF elbo_dropped(h, n) THEN count + 1 ELSE count
        conv == elbo_converged(h, n, t)
        halt == n > 1 /\ ~conv /\ cnt > drops
    IN [ count |-> cnt,
         break |-> conv \/ halt,
         printed |-> (IF elbo_dropped(h, n) THEN <<"dropped">> ELSE <<>>)
                     \o (IF conv THEN <<"converged">> ELSE <<>>)
                     \o (IF halt THEN <<"halted">> ELSE <<>>) ]

\* the "if i > 1" block and the loop's advance
Test ==
    /\ pc = "test"
    /\ LET r == fit_tests(history.ELBO, i, tol, elbo_dropped_count, max_elbo_drops)
       IN /\ elbo_dropped_count' = r.count
          /\ out' = out \o r.printed
          /\ IF r.break \/ i >= max_iter
             THEN pc' = "end" /\ i' = i
             ELSE pc' = "e_step" /\ i' = i + 1
    /\ ran' = <<>>
    /\ UNCHANGED << config, fields, args, pip, inf_beta, raised, len0 >>

\* whether the code after the loop prints the max-iterations message
prints_max_iter(n, mi) == n = mi

\* the code after the loop
End ==
    /\ pc = "end"
    /\ IF i = 0 THEN Raise("UnboundLocalError")
       ELSE /\ out' = IF prints_max_iter(i, max_iter)
                      THEN Append(out, "max_iter") ELSE out
            /\ pip' = var_gamma
            /\ inf_beta' = [c \in Blocks(data) |->
                               var_prod_of(var_gamma[c], var_mu_beta[c])]
            /\ pc' = "idle"
            /\ UNCHANGED << config, fields, args, i, elbo_dropped_count,
                            raised, len0, ran >>

Fit ==
    \E mi \in 0 .. MaxIterBound, cont \in BOOLEAN, a \in FitArgs, seed \in Seeds :
        /\ cont => seed = 0
        /\ fit(mi, cont, a[1], a[2], seed)

Next == Fit \/ EStep \/ MStep \/ Objective \/ GetHeritability \/ Test \/ End

Spec == Init /\ [][Next]_vars

\* ================================================================ claims
Printed(x) == \E k \in 1 .. Len(out) : out[k] = x
Last(h) == h[Len(h)]
Steps == <<"e_step", "m_step", "objective", "get_heritability">>
HistoryKeys == {"ELBO", "pi", "sigma_beta", "sigma_epsilon", "heritability"}
\* iterations of the current (or last) call that have run to their end
Completed == IF pc \in {"e_step", "m_step", "objective", "get_heritability", "test"}
             THEN i - 1 ELSE i
\* the absolute difference of the last two entries of h is <= t
LatestWithinTol(h, t) ==
    Len(h) >= 2 /\ FLe(FAbs(FSub(h[Len(h)], h[Len(h) - 1])), t)
\* the decreases among the entries appended since the loop was entered
DecreasesSeen(h, from) ==
    Cardinality({k \in (from + 2) .. Len(h) : FLt(h[k], h[k - 1])})

\* C1: in every fit call, a continued one on a non-empty history included,
\* the tests after iteration i > 1 compare the ELBO this iteration appended
\* with the one the preceding iteration appended: the drop counter counts the
\* decreases between consecutive entries appended by this call, and the loop
\* stops as converged exactly at the first iteration whose ELBO is within
\* tol of the preceding iteration's.
C1_TestsCompareLatestPair ==
    /\ (pc = "end" /\ i > 1) =>
          /\ Printed("converged") <=> LatestWithinTol(history.ELBO, tol)
          /\ elbo_dropped_count = DecreasesSeen(history.ELBO, len0)
    /\ (pc = "e_step" /\ i > 2) =>
          /\ ~LatestWithinTol(history.ELBO, tol)
          /\ elbo_dropped_count = DecreasesSeen(history.ELBO, len0)

\* C2 as stated: once the drop counter exceeds max_elbo_drops the fit has
\* stopped in the stalled/diverging state and not in the converged state.
C2_StallsOnAnyDecrease ==
    elbo_dropped_count > max_elbo_drops =>
        /\ pc \in {"end", "idle"}
        /\ Printed("halted")
        /\ ~Printed("converged")

\* the two entries the tests of the last finished iteration compared
ComparedNow == elbo_now(history.ELBO, Completed)
ComparedBefore == elbo_before(history.ELBO, Completed)
ComparedWithinTol == FLe(FAbs(FSub(ComparedNow, ComparedBefore)), tol)

\* C2 (amended): the fit stops as stalled/diverging at the first iteration
\* i > 1 at which the drop counter exceeds max_elbo_drops and the two compared
\* ELBO entries differ by more than tol; when they differ by at most tol the
\* fit ends converged even if the counter exceeds max_elbo_drops.  With
\* max_elbo_drops = 0, a compared decrease of more than tol ends the fit
\* stalled at that iteration.
C2_StallsUnlessWithinTol ==
    /\ (pc = "end" /\ i > 1) =>
          /\ Printed("halted") <=>
                (elbo_dropped_count > max_elbo_drops /\ ~ComparedWithinTol)
          /\ Printed("converged") <=> ComparedWithinTol
          /\ (max_elbo_drops = 0 /\ FLt(ComparedNow, ComparedBefore)
                /\ ~ComparedWithinTol) => Printed("halted")
    /\ pc \in {"e_step", "m_step", "objective", "get_heritability", "test"} =>
          /\ elbo_dropped_count <= max_elbo_drops
          /\ ~Printed("halted") /\ ~Printed("converged")

C2_StalledAtFirstDrop ==
    /\ pc = "end" /\ i > 1 /\ max_elbo_drops = 0 /\ len0 = 0
    /\ Printed("halted") /\ ~Printed("converged")
    /\ FLt(ComparedNow, ComparedBefore)

\* C3: fit runs at most max_iter iterations and ends in exactly one terminal
\* state; it prints the max-iterations message iff max_iter iterations ran
\* and neither test succeeded at any of them; pip and inf_beta are set in
\* every terminal state.
\* a call has returned (the loop variable is bound once a call ran)
Returned == pc = "idle" /\ i > 0
C3_ExactlyOneTerminalState ==
    /\ Completed <= max_iter
    /\ raised # "UnboundLocalError"
    /\ Returned =>
          /\ Cardinality({x \in {"converged", "halted", "max_iter"} : Printed(x)}) = 1
          /\ Printed("max_iter") <=>
                (i = max_iter /\ ~Printed("converged") /\ ~Printed("halted"))
          /\ pip = var_gamma
          /\ inf_beta = [c \in Blocks(data) |->
                            var_prod_of(var_gamma[c], var_mu_beta[c])]

\* C4: in every iteration the four steps run once each in the order e_step,
\* m_step, objective, get_heritability before any stopping test; what m_step
\* appended is computed from the arrays e_step left, and what objective and
\* get_heritability appended is computed from the globals m_step left.
IsPrefix(a, b) == Len(a) <= Len(b) /\ \A k \in 1 .. Len(a) : a[k] = b[k]
C4_FixedStepOrder ==
    /\ IsPrefix(ran, Steps)
    /\ pc \in {"e_step", "m_step", "objective", "get_heritability"} =>
          pc = Steps[Len(ran) + 1]
    /\ pc = "test" => ran = Steps
    /\ pc \in {"objective", "get_heritability", "test"} =>
          /\ Last(history.pi) = pi
          /\ Last(history.sigma_beta) = sigma_beta
          /\ Last(history.sigma_epsilon) = sigma_epsilon
          /\ pi = m_step_pi(self)
          /\ Len(history.pi) = len0 + i
    /\ pc \in {"get_heritability", "test"} =>
          /\ Last(history.ELBO) = elbo_of(self)
          /\ Len(history.ELBO) = len0 + i
    /\ pc = "test" =>
          /\ Last(history.heritability) = h2g_of(self)
          /\ Len(history.heritability) = len0 + i

C4_SecondIterationTested ==
    pc = "test" /\ i = 2 /\ ran = Steps /\ "pi" \notin DOMAIN fix_params

\* C5: between iterations the five histories have equal length, the number of
\* iterations completed since initialize() emptied them (k after a fit with
\* continued=false, k + k' after a continued one); a step either leaves a
\* history as it is, appends one value to it, or (initialize) empties all.
C5_BetweenIterations ==
    /\ pc \in {"idle", "e_step", "end"} =>
          \A key \in HistoryKeys : Len(history[key]) = len0 + Completed
    /\ ~continued => len0 = 0

C5_AppendOnly ==
    /\ \A key \in HistoryKeys :
          \/ history'[key] = history[key]
          \/ Len(history'[key]) = Len(history[key]) + 1
                /\ SubSeq(history'[key], 1, Len(history[key])) = history[key]
          \/ pc = "idle" /\ ~continued' /\ history' = init_history
    /\ (pc = "idle" /\ pc' # "idle" /\ continued') =>
          /\ history' = history
          /\ len0' = Len(history.ELBO)

C5_HistoriesGrowTogether == []C5_BetweenIterations /\ [][C5_AppendOnly]_vars

C5_ContinuedFitDone ==
    /\ pc = "idle" /\ continued /\ len0 = 2 /\ i = 2
    /\ \A key \in HistoryKeys : Len(history[key]) = 4

\* C6: a parameter named in fix_params equals its configured value in every
\* state, and every m_step appends that value to the parameter's history.
ParamValue(p) ==
    CASE p = "pi" -> pi
      [] p = "sigma_beta" -> sigma_beta
      [] p = "sigma_epsilon" -> sigma_epsilon
\* m_steps the current (or last) call has run
MStepsRun == IF pc \in {"e_step", "m_step"} THEN i - 1 ELSE i
C6_PinnedNeverChange ==
    \A p \in DOMAIN fix_params :
        /\ ParamValue(p) = fix_params[p]
        /\ \A k \in 1 .. Len(history[p]) : history[p][k] = fix_params[p]
        /\ pc # "raised" => Len(history[p]) = len0 + MStepsRun

C6_AllPinnedContinued ==
    /\ DOMAIN fix_params = ParamNames
    /\ pc = "idle" /\ continued /\ len0 = 2 /\ i = 2
    /\ Len(history.pi) = 4 /\ Len(history.sigma_beta) = 4
    /\ Len(history.sigma_epsilon) = 4

\* C7: after every m_step, for every unpinned parameter, pi is in [1/M, 1],
\* sigma_beta in [1e-12, 1e12], sigma_epsilon in [1e-12, 1e12] and
\* (per-variant-residual variant) every sig_e_snp entry in [1e-12, 1e12].
InRange(x, lo, hi) == FLe(lo, x) /\ FLe(x, hi)
C7_MStepRanges ==
    Len(history.pi) > 0 =>
        /\ "pi" \notin DOMAIN fix_params => InRange(pi, FDiv(One, M * One), One)
        /\ "sigma_beta" \notin DOMAIN fix_params =>
              InRange(sigma_beta, CLIP_MIN, CLIP_MAX)
        /\ "sigma_epsilon" \notin DOMAIN fix_params =>
              InRange(sigma_epsilon, CLIP_MIN, CLIP_MAX)
        /\ variant = "sbayes" =>
              \A c \in Blocks(data) : \A k \in 1 .. data.shapes[c] :
                  InRange(sig_e_snp[c][k], CLIP_MIN, CLIP_MAX)

\* C8: with pi not pinned, pi is strictly between 0 and 1 whenever an e_step
\* is about to read it, for every M >= 1.
C8_PiInsideUnitInterval ==
    (pc = "e_step" /\ "pi" \notin DOMAIN fix_params) => FLt(0, pi) /\ FLt(pi, One)

\* C9: after every e_step every var_gamma entry is in [1e-6, 1 - 1e-6] and
\* every var_sigma_beta entry is strictly positive.
C9_EStepRanges ==
    pc = "m_step" =>
        \A c \in Blocks(data) : \A k \in 1 .. data.shapes[c] :
            /\ InRange(var_gamma[c][k], GAMMA_EPS, One - GAMMA_EPS)
            /\ FGt(var_sigma_beta[c][k], 0)

\* C10: global-residual variant, after e_step: in a block whose windows and
\* LD values are symmetric, q[i] is the sum over the other variants j of i's
\* window of LD[i,j] * expected_effect[j], with the expected effects the pass
\* ended with.
InWindow(d, c, a, b) == At(d.lo[c], a) <= b /\ b < At(d.hi[c], a)
LD(d, c, a, b) == At(d.ld[c][a + 1], b - At(d.lo[c], a))
SymmetricBlock(d, c) ==
    \A a, b \in 0 .. (d.shapes[c] - 1) :
        /\ InWindow(d, c, a, b) <=> InWindow(d, c, b, a)
        /\ InWindow(d, c, a, b) => LD(d, c, a, b) = LD(d, c, b, a)
FullLdSum(d, c, a, vp) ==
    Sum([k \in 1 .. d.shapes[c] |->
            IF k - 1 # a /\ InWindow(d, c, a, k - 1)
            THEN FMul(LD(d, c, a, k - 1), vp[k]) ELSE 0])
C10_QIsFullLdSum ==
    (variant = "opt" /\ pc \in {"m_step", "objective", "get_heritability", "test"}) =>
        \A c \in Blocks(data) :
            SymmetricBlock(data, c) =>
                \A a \in 0 .. (data.shapes[c] - 1) :
                    At(q[c], a) = FullLdSum(data, c, a,
                                      var_prod_of(var_gamma[c], var_mu_beta[c]))

C10_BandedBlockPassed ==
    /\ variant = "opt" /\ pc = "m_step" /\ i = 2
    /\ data.lo[1] = <<0, 0, 1>> /\ SymmetricBlock(data, 1)
    /\ \A a \in 0 .. 2 : At(q[1], a) # 0

\* C11: for one variational state and LD data with symmetric windows, in any
\* number of blocks, the total LD cross-term the per-variant-residual
\* objective adds to its likelihood term (through ld_prod) equals the total
\* the global-residual objective adds, the sum over blocks of
\* dot(expected_effect, q).
\* The totals are taken exactly, in units of One^3, on the expected effects
\* var_gamma * var_mu_beta of the state.
RECURSIVE ISumFrom(_, _)
ISumFrom(s, k) == IF k > Len(s) THEN 0 ELSE s[k] + ISumFrom(s, k + 1)
ISum(s) == ISumFrom(s, 1)
expected_effect(s, c) == var_prod_of(s.var_gamma[c], s.var_mu_beta[c])
\* m_step: snp_ld of variant n, for j in range(i + 1, ld_bound[1, i])
snp_ld_exact(s, c, n) ==
    LET vp == expected_effect(s, c)
        end == At(s.data.hi[c], n)
    IN ISum([k \in 1 .. (IF end > n + 1 THEN end - n - 1 ELSE 0) |->
                LD(s.data, c, n, n + k) * At(vp, n) * At(vp, n + k)])
\* m_step: self.ld_prod = 2. * ld_prod, ld_prod summed over every block
ld_prod_exact(s) ==
    2 * ISum([c \in Blocks(s.data) |->
                 ISum([k \in 1 .. s.data.shapes[c] |-> snp_ld_exact(s, c, k - 1)])])
\* objective of the per-variant-residual class: + self.ld_prod in every
\* round of `for c in self.var_mu_beta`
objective_ld_total_sbayes(s) ==
    ISum([c \in Blocks(s.data) |-> ld_prod_exact(s)])
\* e_step of the global-residual class: q[n] once the pass has ended, the
\* dot over the row of n left of n plus what each later row j adds to q[n]
q_exact(s, c, n) ==
    LET vp == expected_effect(s, c)
    IN ISum([k \in 1 .. s.data.shapes[c] |->
                IF At(s.data.lo[c], n) <= k - 1 /\ k - 1 < n
                THEN LD(s.data, c, n, k - 1) * vp[k]
                ELSE IF k - 1 > n /\ At(s.data.lo[c], k - 1) <= n
                THEN LD(s.data, c, k - 1, n) * vp[k]
                ELSE 0])
\* objective of the global-residual class: + np.dot(gamma_mu, self.q[c])
objective_ld_total_opt(s) ==
    ISum([c \in Blocks(s.data) |->
             ISum([k \in 1 .. s.data.shapes[c] |->
                      expected_effect(s, c)[k] * q_exact(s, c, k - 1)])])
FiniteState(s) ==
    \A c \in Blocks(s.data) : \A k \in 1 .. s.data.shapes[c] :
        ~IsNaN(s.var_gamma[c][k]) /\ ~IsNaN(s.var_mu_beta[c][k])
C11_LdCrossTermsAgree ==
    (pc = "objective" /\ FiniteState(self)
       /\ \A c \in Blocks(data) : SymmetricBlock(data, c)) =>
        objective_ld_total_sbayes(self) = objective_ld_total_opt(self)

\* C12: within one e_step pass over a block the variants are updated in
\* ascending order; the new var_mu_beta[i] is made from, for every other
\* variant j of i's window, the expected effect written earlier in the same
\* pass when j < i and the one from before the pass when j > i, variant i's
\* own stale expected effect contributing nothing; expected_effect[i] is
\* var_gamma[i] * var_mu_beta[i] before variant i + 1 is updated; and a
\* block's update reads and writes no variational state of another block.
\* the divisor of the var_mu_beta update of variant n of block c
mu_denom(s, c, n) ==
    IF s.variant = "opt"
    THEN FAdd(One, FDiv(s.sigma_epsilon,
                        FScale(prior_var_opt(s.scale_prior, s.sigma_epsilon,
                                             s.sigma_beta), N)))
    ELSE LET se == At(s.sig_e_snp[c], n)
             pv == IF s.scale_prior THEN FMul(se, s.sigma_beta) ELSE s.sigma_beta
         IN FAdd(One, FDiv(se, FScale(pv, N)))
\* the LD-weighted sum over the other variants of n's window, with the
\* expected effects `after` for the variants below n and `before` for those above
OthersInOrder(d, c, n, before, after) ==
    Sum([k \in 1 .. d.shapes[c] |->
            IF k - 1 # n /\ InWindow(d, c, n, k - 1)
            THEN FMul(LD(d, c, n, k - 1),
                      IF k - 1 < n THEN after[k] ELSE before[k])
            ELSE 0])
C12_PassInOrder ==
    (pc = "e_step" /\ pc' = "m_step") =>
        \A c \in Blocks(data) : \A n \in 0 .. (data.shapes[c] - 1) :
            At(var_mu_beta'[c], n) =
                FDiv(FSub(At(data.beta_hat[c], n),
                          OthersInOrder(data, c, n,
                              var_prod_of(var_gamma[c], var_mu_beta[c]),
                              var_prod_of(var_gamma'[c], var_mu_beta'[c]))),
                     mu_denom(self, c, n))
C12_AscendingInPlacePass == [][C12_PassInOrder]_vars

C12_SecondPassOverWindows ==
    /\ variant = "sbayes" /\ pc = "m_step" /\ i = 2
    /\ data.shapes = <<3>> /\ data.lo[1] = <<0, 0, 0>> /\ data.hi[1] = <<3, 3, 3>>
    /\ \A k \in 1 .. 3 : ~IsNaN(var_mu_beta[1][k]) /\ var_mu_beta[1][k] # 0
                         /\ var_gamma[1][k] # 0 /\ ~IsNaN(var_gamma[1][k])

====
